---- MODULE Spec2Model ----
(***************************************************************************)
(* A model of tools/scrape/github.py: the GitHub scraper of vim-awesome.   *)
(*                                                                         *)
(* The module holds four state machines over one set of variables:         *)
(*   - the directory walker (_extract_bundle_repos_from_dir),              *)
(*   - the rate limiter (maybe_wait_until_api_limit_resets),               *)
(*   - the dotfiles discoverer (scrape_dotfiles_repos),                    *)
(*   - the known-plugin re-scraper (scrape_plugin_repos).                  *)
(* Each machine has its own initial predicate; a machine that is not the   *)
(* one started sits at pc "off", where none of its actions is enabled.     *)
(*                                                                         *)
(* Python strings that the code inspects character by character (file      *)
(* names, directive arguments) are tuples of one-character strings.        *)
(***************************************************************************)
EXTENDS Integers, Sequences, FiniteSets, TLC

VARIABLES
    \* ---- directory walker
    wpc,            \* "off" | "idle" | "enter" | "files" | "dirs" | "ret" | "done" | "raised"
    stack,          \* call stack of _extract_bundle_repos_from_dir, innermost last
    retval,         \* value returned by the invocation that just returned
    enteredDepths,  \* history: the depths the walker was entered at
    fileFetchDepths,\* history: the depths of the listings whose files were fetched
    fetches,        \* history: number of get_api_page calls of the walk
    yields,         \* history: number of fetched files whose extraction was non-empty
    yieldResult,    \* history: the extraction result of the first such file
    lateFetches,    \* history: number of get_api_page calls made after such a file
    retDepth        \* history: the depth of the invocation that just returned

walkVars == <<wpc, stack, retval, enteredDepths, fileFetchDepths, fetches, yields,
              yieldResult, lateFetches, retDepth>>

VARIABLES
    \* ---- rate limiter
    rpc,            \* "off" | "call" | "returned"
    headers,        \* response_headers: X-RateLimit-Remaining, X-RateLimit-Reset
    now,            \* datetime.datetime.now(): whole seconds and microseconds
    slept           \* seconds passed to time.sleep; 0 when sleep was not called

rateVars == <<rpc, headers, now, slept>>

VARIABLES
    \* ---- the remote: the repositories GitHub's search knows
    pushedAt,       \* repo -> its pushed_at, in epoch seconds
    match,          \* repo -> the search keywords its name matches
    \* ---- persistence: the dotfiles_github_repos table
    dotDb,          \* repo -> [present, pushed_at, search_keyword]
    \* ---- dotfiles discoverer: scrape_dotfiles_repos
    dpc,            \* "off" | "idle" | "keyword" | "search" | "items" | "throttle"
                    \*   | "paginate" | "returned" | "aborted"
    num,            \* the quota of the run
    kw,             \* index of repo_name in _DOTFILE_REPO_NAMES
    last_pushed_date,
    items,          \* the page of search results
    pos,            \* index in items of the next item of the for loop
    repos_scraped,
    \* ---- history of the discoverer
    runs,           \* runs started so far
    processed,      \* repos the item loop has handled, in any run
    runProcessed,   \* number of search results handled in this run
    searchFetches,  \* search pages fetched in this run
    throttleCalls,  \* maybe_wait_until_api_limit_resets calls in this run
    pageNo,         \* search pages fetched for the current keyword in this run
    searchStatus,   \* status of the last search response of this run
    dotWrites,      \* records upserted into the table in this run
    lastContents,   \* the last contents fetch: [repo, outcome, writesBefore]
    errorSeen,      \* a non-2xx response other than 404 arrived in this run
    afterError,     \* search results handled and keywords begun after it
    abortCause      \* what raised, when the run was aborted

dotVars == <<pushedAt, match, dotDb, dpc, num, kw, last_pushed_date, items, pos,
             repos_scraped, runs, processed, runProcessed, searchFetches,
             throttleCalls, pageNo, searchStatus, dotWrites, lastContents,
             errorSeen, afterError, abortCause>>

VARIABLES
    \* ---- the remote: what repos/<owner>/<repo> answers for each plugin repo
    remoteStatus,   \* repo -> 200 | 404 | 403
    \* ---- persistence: the plugin_github_repos table and the plugins
    pluginRepos,    \* repo -> [is_blacklisted, last_scraped_at, repo_data]
    plugins,        \* the repos whose normalized plugin record was upserted
    \* ---- known-plugin re-scraper: scrape_plugin_repos
    ppc,            \* "off" | "idle" | "loop" | "returned" | "aborted"
    pnum,           \* the argument num of the run
    repos,          \* the selected records still to visit
    \* ---- history of the re-scraper
    pruns,          \* runs so far that wrote to the table
    pclock,         \* the clock log_scrape stamps last_scraped_at with
    plog,           \* writes of this run, in order: [op, repo]
    visited,        \* the records this run has fetched, in order
    perrorSeen,     \* a non-2xx response other than 404 arrived in this run
    pscraped        \* the records fetch_plugin was called for, in any run

plugVars == <<remoteStatus, pluginRepos, plugins, ppc, pnum, repos, pruns, pclock,
              plog, visited, perrorSeen, pscraped>>

VARIABLES
    \* ---- fetch_plugin, the reconciliation of the dates (lines 140-166)
    tpc,            \* "off" | "call" | "returned"
    repo_dates,     \* the repo object: its created_at and updated_at texts
    commits_data,   \* the body of repos/<owner>/<repo>/commits
    created_date,   \* the local created_date, as dateutil parsed it
    updated_date    \* the local updated_date, as dateutil parsed it

dateVars == <<tpc, repo_dates, commits_data, created_date, updated_date>>

VARIABLES
    \* ---- get_api_page
    gpc,            \* "off" | "call" | "requested"
    token,          \* _GITHUB_API_TOKEN: "" stands for None
    url_or_path,    \* the first argument, as urlsplit splits it
    query_params,   \* the second argument: a dict, or NoParams for None
    requested       \* the URL given to requests.get, split the same way

apiVars == <<gpc, token, url_or_path, query_params, requested>>

VARIABLES
    \* ---- _get_plugin_repos_from_dotfiles, the record it writes (lines 382-400)
    mpc,            \* "off" | "call" | "returned"
    db_repo,        \* what get_with_owner_repo returned: a dict, or NoDict for None
    computed,       \* the seven fields computed by this pass
    repo_dict,      \* the local repo as it is handed to log_scrape
    stored          \* the record of the table after upsert_with_owner_repo

mergeVars == <<mpc, db_repo, computed, repo_dict, stored>>

VARIABLES
    \* ---- _extract_bundle_repos_from_file
    xpc,              \* "off" | "call" | "returned"
    contents_decoded, \* the file: its lines a directive pattern can match
    extracted         \* the tuple returned

extractVars == <<xpc, contents_decoded, extracted>>

\* the functions of the module that are checked on their own
funVars == <<dateVars, apiVars, mergeVars, extractVars>>

vars == <<walkVars, rateVars, dotVars, plugVars, funVars>>

notWalk == <<rateVars, dotVars, plugVars, funVars>>
notRate == <<walkVars, dotVars, plugVars, funVars>>
notDot  == <<walkVars, rateVars, plugVars, funVars>>
notPlug == <<walkVars, rateVars, dotVars, funVars>>
machines == <<walkVars, rateVars, dotVars, plugVars>>
notDates == <<machines, apiVars, mergeVars, extractVars>>
notApi == <<machines, dateVars, mergeVars, extractVars>>
notMerge == <<machines, dateVars, apiVars, extractVars>>
notExtract == <<machines, dateVars, apiVars, mergeVars>>

-----------------------------------------------------------------------------
(* Bounds of the model *)

\* longest directory listing a contents fetch returns
MaxEntries == 2
\* most lines of a fetched file
MaxLines == 2
\* latest clock reading and reset time, in seconds
MaxClock == 6
\* number of remote repositories
NRepos == 3
\* latest pushed_at of a remote repository
MaxDate == 3
\* per_page of the search query (the code asks for 100)
PerPage == 2
\* largest quota a run is started with
MaxQuota == 3
\* number of runs of an orchestrator (of the re-scraper: of its runs that write)
MaxRuns == 2
\* number of records of the plugin_github_repos table
NPluginRepos == 3
\* most commits in the body of a commits fetch
MaxCommits == 2
\* most key=value pairs in the query of the URL given to get_api_page
MaxPairs == 2
\* most parts a directive argument is made of
MaxParts == 3

-----------------------------------------------------------------------------
(* Python strings *)

UpperChars == <<"A","B","C","D","E","F","G","H","I","J","K","L","M",
                "N","O","P","Q","R","S","T","U","V","W","X","Y","Z">>
LowerChars == <<"a","b","c","d","e","f","g","h","i","j","k","l","m",
                "n","o","p","q","r","s","t","u","v","w","x","y","z">>

LowerChar(c) ==
    IF \E i \in DOMAIN UpperChars : UpperChars[i] = c
    THEN LowerChars[CHOOSE i \in DOMAIN UpperChars : UpperChars[i] = c]
    ELSE c

\* str.lower()
Lower(s) == [i \in DOMAIN s |-> LowerChar(s[i])]

\* sub in s
Contains(sub, s) ==
    \E i \in 0..(Len(s) - Len(sub)) : SubSeq(s, i + 1, i + Len(sub)) = sub

\* s.endswith(suffix)
EndsWith(s, suffix) ==
    /\ Len(s) >= Len(suffix)
    /\ SubSeq(s, Len(s) - Len(suffix) + 1, Len(s)) = suffix

\* sequences over S of length at most n
SeqUpTo(S, n) == UNION {[1..k -> S] : k \in 0..n}

-----------------------------------------------------------------------------
(* Module constants of github.py *)

VIMRC_FILENAMES ==
    { <<"v","i","m","r","c">>,
      <<"b","u","n","d","l","e">>,
      <<"v","u","n","d","l","e",".","v","i","m">>,
      <<"v","u","n","d","l","e","s",".","v","i","m">>,
      <<"v","i","m",".","c","o","n","f","i","g">>,
      <<"p","l","u","g","i","n","s",".","v","i","m">> }

VIM_DIRECTORIES ==
    { <<"v","i","m">>, <<"c","o","n","f","i","g">>, <<"h","o","m","e">> }

GVIMRC == <<"g","v","i","m","r","c">>

VUNDLE_DIRECTIVES == {"Bundle"}
NEOBUNDLE_DIRECTIVES == {"NeoBundle", "NeoBundleFetch", "NeoBundleLazy"}

\* _DOTFILE_REPO_NAMES: the model keeps the first two of the ten names
DOTFILE_REPO_NAMES == <<"dotfile", "vimrc">>

DEFAULT_OWNER == <<"v","i","m","-","s","c","r","i","p","t","s">>

DOT_GIT == <<".","g","i","t">>

-----------------------------------------------------------------------------
(* Pattern extractor *)

\* A file is a sequence of lines; a line that a _BUNDLE_PLUGIN_REGEX_TEMPLATE
\* pattern can match is [directive, arg]: the keyword at the start of the line
\* and the quoted argument (no quote, no newline inside).
NoSlash(s) == \A i \in DOMAIN s : s[i] # "/"

\* ([^'"\n\r/]+?)(?:\.git)?$ on a remainder without "/": the lazy group takes
\* the shortest non-empty prefix that leaves "" or ".git" to the end.
RepoOf(rest) ==
    IF EndsWith(rest, DOT_GIT) /\ Len(rest) > Len(DOT_GIT)
    THEN SubSeq(rest, 1, Len(rest) - Len(DOT_GIT))
    ELSE rest

\* [^:'"/]+ followed by "/" starting at s: the index of that "/", or 0
OwnerSlash(arg, s) ==
    IF \E j \in (s + 1)..Len(arg) :
           /\ arg[j] = "/"
           /\ \A i \in s..(j - 1) : arg[i] \notin {":", "/"}
    THEN CHOOSE j \in (s + 1)..Len(arg) :
           /\ arg[j] = "/"
           /\ \A i \in s..(j - 1) : arg[i] \notin {":", "/"}
    ELSE 0

\* the pattern _BUNDLE_OWNER_REPO_REGEX matches at start position s (1-based)
WithOwnerAt(arg, s) ==
    LET j == OwnerSlash(arg, s)
    IN  j # 0 /\ j < Len(arg) /\ NoSlash(SubSeq(arg, j + 1, Len(arg)))

WithoutOwnerAt(arg, s) ==
    s <= Len(arg) /\ NoSlash(SubSeq(arg, s, Len(arg)))

MatchesAt(arg, s) == WithOwnerAt(arg, s) \/ WithoutOwnerAt(arg, s)

\* _BUNDLE_OWNER_REPO_REGEX.search(bundle).groups(): the leftmost match, the
\* optional owner group tried first. <<>> stands for no match.
OwnerRepoSearch(arg) ==
    IF \E s \in 1..Len(arg) : MatchesAt(arg, s)
    THEN LET s == CHOOSE p \in 1..Len(arg) :
                      /\ MatchesAt(arg, p)
                      /\ \A q \in 1..(p - 1) : ~MatchesAt(arg, q)
         IN  IF WithOwnerAt(arg, s)
             THEN LET j == OwnerSlash(arg, s)
                  IN  << [owner |-> SubSeq(arg, s, j - 1),
                          repo  |-> RepoOf(SubSeq(arg, j + 1, Len(arg)))] >>
             ELSE << [owner |-> DEFAULT_OWNER,
                      repo  |-> RepoOf(SubSeq(arg, s, Len(arg)))] >>
    ELSE <<>>

RECURSIVE ExtractUntilUnparseable(_, _)
\* the same, were the first argument that cannot be split to end the scan
ExtractUntilUnparseable(file_contents, directives) ==
    IF file_contents = <<>> THEN <<>>
    ELSE LET line == Head(file_contents)
         IN  IF line.directive \in directives
             THEN IF OwnerRepoSearch(line.arg) = <<>> THEN <<>>
                  ELSE OwnerRepoSearch(line.arg)
                       \o ExtractUntilUnparseable(Tail(file_contents), directives)
             ELSE ExtractUntilUnparseable(Tail(file_contents), directives)

RECURSIVE ExtractBundlesWithRegex(_, _)
\* _extract_bundles_with_regex: the (owner, repo) of every matched line, in
\* file order; a matched argument that cannot be split adds nothing.
ExtractBundlesWithRegex(file_contents, directives) ==
    IF file_contents = <<>> THEN <<>>
    ELSE LET line == Head(file_contents)
             rest == ExtractBundlesWithRegex(Tail(file_contents), directives)
         IN  IF line.directive \in directives
             THEN OwnerRepoSearch(line.arg) \o rest
             ELSE rest

\* Python values the walker returns: None, or a tuple of two lists
NoneVal == [kind |-> "None", vundle |-> <<>>, neobundle |-> <<>>]
Pair(v, n) == [kind |-> "tuple", vundle |-> v, neobundle |-> n]
EmptyPair == Pair(<<>>, <<>>)

\* _extract_bundle_repos_from_file
ExtractBundleReposFromFile(file_contents) ==
    Pair(ExtractBundlesWithRegex(file_contents, VUNDLE_DIRECTIVES),
         ExtractBundlesWithRegex(file_contents, NEOBUNDLE_DIRECTIVES))

\* any(bundles_tuple) on a tuple of two lists
AnyOf(p) == p.vundle # <<>> \/ p.neobundle # <<>>

-----------------------------------------------------------------------------
(* What the remote can answer *)

FileEntry(n) == [name |-> n, type |-> "file"]
DirEntry(n)  == [name |-> n, type |-> "dir"]

Entries ==
    { FileEntry(<<"V","i","m","r","c">>),
      FileEntry(<<".","g","v","i","m","r","c">>),
      FileEntry(<<"R","E","A","D","M","E">>),
      DirEntry(<<"V","i","m">>),
      DirEntry(<<"s","r","c">>) }

\* the JSON list a contents fetch of a directory returns
Listings == SeqUpTo(Entries, MaxEntries)

Lines ==
    { [directive |-> "Bundle",        arg |-> <<"a","/","b">>],
      [directive |-> "NeoBundleLazy", arg |-> <<"c">>],
      [directive |-> "Bundle",        arg |-> <<"a","/">>],
      [directive |-> "set",           arg |-> <<"x">>] }

\* the decoded 'content' of a file fetch
FileContents == SeqUpTo(Lines, MaxLines)

-----------------------------------------------------------------------------
(* Directory walker: _extract_bundle_repos_from_dir *)

DEPTH_LIMIT == 3

Top == stack[Len(stack)]
Pop == SubSeq(stack, 1, Len(stack) - 1)
SetTop(f) == [stack EXCEPT ![Len(stack)] = f]

\* filter(lambda f: f['type'] == t, dir_data)
OfType(dir_data, t) == SelectSeq(dir_data, LAMBDA f : f.type = t)

\* the guard of the file loop: not a gvimrc, and a candidate file name
IsCandidateFileOrGvimrc(file_data) ==
    LET filename == Lower(file_data.name)
    IN  \E f \in VIMRC_FILENAMES : Contains(f, filename)
IsCandidateFile(file_data) ==
    LET filename == Lower(file_data.name)
    IN  /\ ~Contains(GVIMRC, filename)
        /\ \E f \in VIMRC_FILENAMES : Contains(f, filename)

\* the guard of the directory loop
IsCandidateDir(dir_data) ==
    LET filename == Lower(dir_data.name)
    IN  \E f \in VIM_DIRECTORIES : Contains(f, filename)

\* the depth test at the head of the function
AtDepthLimitOffByOne(depth) == depth > DEPTH_LIMIT
AtDepthLimit(depth) == depth >= DEPTH_LIMIT

\* the file loop's "if any(bundles_tuple): return bundles_tuple"
FileLoopKeepsScanning(bundles_tuple) == FALSE
FileLoopReturns(bundles_tuple) == AnyOf(bundles_tuple)

\* the depth passed to the recursive call
NextDepth(depth) == depth + 1

\* the two filters of an invocation on its listing
Partition(dir_data) ==
    [files |-> OfType(dir_data, "file"), dirs |-> OfType(dir_data, "dir")]

\* the partitions of the listings a contents fetch can return, and what
\* _extract_bundle_repos_from_file makes of the files a file fetch can return
ListingPartitions == {Partition(dir_data) : dir_data \in Listings}
FileResults == {ExtractBundleReposFromFile(c) : c \in FileContents}

Frame(part, depth) ==
    [depth |-> depth, files |-> part.files, dirs |-> part.dirs]

\* _get_plugin_repos_from_dotfiles calls the walker on the root listing
WalkStart ==
    /\ wpc = "idle"
    /\ \E contents_data \in ListingPartitions :
          stack' = <<Frame(contents_data, 0)>>
    /\ wpc' = "enter"
    /\ UNCHANGED <<retval, enteredDepths, fileFetchDepths, fetches, yields,
                   yieldResult, lateFetches, retDepth>>
    /\ UNCHANGED notWalk

\* entry of an invocation: "if depth >= 3: return"
WalkEnter ==
    /\ wpc = "enter"
    /\ enteredDepths' = enteredDepths \cup {Top.depth}
    /\ IF AtDepthLimit(Top.depth)
       THEN /\ retval' = NoneVal
            /\ retDepth' = Top.depth
            /\ stack' = Pop
            /\ wpc' = "ret"
       ELSE /\ wpc' = "files"
            /\ UNCHANGED <<stack, retval, retDepth>>
    /\ UNCHANGED <<fileFetchDepths, fetches, yields, yieldResult, lateFetches>>
    /\ UNCHANGED notWalk

\* one iteration of "for file_data in files", or the end of that loop
WalkFile ==
    /\ wpc = "files"
    /\ IF Top.files = <<>>
       THEN /\ wpc' = "dirs"
            /\ UNCHANGED <<stack, retval, fileFetchDepths, fetches, yields,
                           yieldResult, lateFetches, retDepth>>
       ELSE LET file_data == Head(Top.files)
                rest == [Top EXCEPT !.files = Tail(Top.files)]
            IN  IF ~IsCandidateFile(file_data)
                THEN /\ stack' = SetTop(rest)
                     /\ UNCHANGED <<wpc, retval, fileFetchDepths, fetches, yields,
                                    yieldResult, lateFetches, retDepth>>
                ELSE \E bundles_tuple \in FileResults :
                            /\ fetches' = fetches + 1
                            /\ lateFetches' = lateFetches + (IF yields > 0 THEN 1 ELSE 0)
                            /\ fileFetchDepths' = fileFetchDepths \cup {Top.depth}
                            /\ yields' = yields + (IF AnyOf(bundles_tuple) THEN 1 ELSE 0)
                            /\ yieldResult' = IF AnyOf(bundles_tuple) /\ yields = 0
                                              THEN bundles_tuple ELSE yieldResult
                            /\ IF FileLoopReturns(bundles_tuple)
                               THEN /\ retval' = bundles_tuple
                                    /\ retDepth' = Top.depth
                                    /\ stack' = Pop
                                    /\ wpc' = "ret"
                               ELSE /\ stack' = SetTop(rest)
                                    /\ UNCHANGED <<wpc, retval, retDepth>>
    /\ UNCHANGED enteredDepths
    /\ UNCHANGED notWalk

\* one iteration of "for dir_data in dirs" up to the recursive call, or the
\* "return [], []" after the loop
WalkDir ==
    /\ wpc = "dirs"
    /\ IF Top.dirs = <<>>
       THEN /\ retval' = EmptyPair
            /\ retDepth' = Top.depth
            /\ stack' = Pop
            /\ wpc' = "ret"
            /\ UNCHANGED <<fetches, lateFetches>>
       ELSE LET dir_data == Head(Top.dirs)
                rest == [Top EXCEPT !.dirs = Tail(Top.dirs)]
            IN  IF ~IsCandidateDir(dir_data)
                THEN /\ stack' = SetTop(rest)
                     /\ UNCHANGED <<wpc, retval, fetches, lateFetches, retDepth>>
                ELSE \E subdir_data \in ListingPartitions :
                        /\ fetches' = fetches + 1
                        /\ lateFetches' = lateFetches + (IF yields > 0 THEN 1 ELSE 0)
                        /\ stack' = Append(SetTop(rest),
                                           Frame(subdir_data, NextDepth(Top.depth)))
                        /\ wpc' = "enter"
                        /\ UNCHANGED <<retval, retDepth>>
    /\ UNCHANGED <<enteredDepths, fileFetchDepths, yields, yieldResult>>
    /\ UNCHANGED notWalk

\* the caller's "if any(bundles_tuple): return bundles_tuple"; any(None)
\* raises TypeError, which no frame catches
WalkReturn ==
    /\ wpc = "ret"
    /\ IF stack = <<>>
       THEN /\ wpc' = "done"
            /\ UNCHANGED <<stack, retval, retDepth>>
       ELSE IF retval.kind = "None"
       THEN /\ wpc' = "raised"
            /\ stack' = <<>>
            /\ UNCHANGED <<retval, retDepth>>
       ELSE IF AnyOf(retval)
       THEN /\ stack' = Pop
            /\ retDepth' = Top.depth
            /\ UNCHANGED <<wpc, retval>>
       ELSE /\ wpc' = "dirs"
            /\ UNCHANGED <<stack, retval, retDepth>>
    /\ UNCHANGED <<enteredDepths, fileFetchDepths, fetches, yields, yieldResult,
                   lateFetches>>
    /\ UNCHANGED notWalk

-----------------------------------------------------------------------------
(* Rate limiter: maybe_wait_until_api_limit_resets *)

SECONDS_PER_DAY == 86400
MICROS_PER_SECOND == 1000000

\* (reset_date - now).seconds: a timedelta is normalized to days, seconds in
\* 0..86399 and microseconds in 0..999999, and .seconds is the seconds part
TimedeltaSeconds(reset, t) ==
    (((reset - t.sec) * MICROS_PER_SECOND - t.micro) \div MICROS_PER_SECOND)
        % SECONDS_PER_DAY

\* seconds_to_wait
SecondsToWait(reset, t) == TimedeltaSeconds(reset, t) + 1

\* response_headers['X-RateLimit-Remaining'] == '0'
LimitExhausted(h) == h.remaining = "0"

Clock == 0..MaxClock

MaybeWait ==
    /\ rpc = "call"
    /\ slept' = IF LimitExhausted(headers)
                THEN SecondsToWait(headers.reset, now)
                ELSE 0
    /\ rpc' = "returned"
    /\ UNCHANGED <<headers, now>>
    /\ UNCHANGED notRate

InitRate ==
    /\ rpc = "call"
    /\ headers \in [remaining : {"0", "1", "59"}, reset : Clock]
    /\ now \in [sec : Clock, micro : {0, 500000}]
    /\ slept = 0

RateOff ==
    /\ rpc = "off"
    /\ headers = [remaining |-> "1", reset |-> 0]
    /\ now = [sec |-> 0, micro |-> 0]
    /\ slept = 0

NextRate == MaybeWait

-----------------------------------------------------------------------------
(* Dotfiles discoverer: scrape_dotfiles_repos *)

Repos == 1..NRepos
NKeywords == Len(DOTFILE_REPO_NAMES)
Keywords == 1..NKeywords
Quotas == 0..MaxQuota

EARLIEST_PUSHED_DATE == 1

\* the pushed_at of the remote repos: the search never returns a repo pushed
\* at or before EARLIEST_PUSHED_DATE, whatever that date is, so one such date
\* stands for all of them
Dates == EARLIEST_PUSHED_DATE..MaxDate

Max(a, b) == IF a >= b THEN a ELSE b
Min(a, b) == IF a <= b THEN a ELSE b

NoRecord == [present |-> FALSE, pushed_at |-> 0, search_keyword |-> 0]

\* DotfilesGithubRepos.get_latest_with_keyword: the record of the keyword with
\* the greatest pushed_at, or NoRecord (None)
GetLatestWithKeyword(keyword) ==
    LET S == {r \in Repos : dotDb[r].present /\ dotDb[r].search_keyword = keyword}
    IN  IF S = {} THEN NoRecord
        ELSE dotDb[CHOOSE r \in S : \A q \in S : dotDb[q].pushed_at <= dotDb[r].pushed_at]

\* util.to_timestamp and datetime.utcfromtimestamp on whole seconds
ToTimestamp(date) == date
UtcFromTimestamp(ts) == ts

\* the start value of last_pushed_date for a keyword
StartDateIgnoresRecord(latest_repo) == EARLIEST_PUSHED_DATE
StartDate(latest_repo) ==
    IF latest_repo.present /\ latest_repo.pushed_at # 0
    THEN Max(UtcFromTimestamp(latest_repo.pushed_at), EARLIEST_PUSHED_DATE)
    ELSE EARLIEST_PUSHED_DATE

\* GitHub's answer to 'q': '<repo_name> in:name pushed:><start_date>', sort
\* updated, order asc, page 1: the first per_page matching repos in ascending
\* order of push date; repos pushed in the same second come in any order
Matching(keyword, start_date) ==
    {r \in Repos : keyword \in match[r] /\ pushedAt[r] > start_date}

Ascending(S) ==
    {q \in [1..Cardinality(S) -> S] :
        \A i, j \in 1..Cardinality(S) :
            i < j => q[i] # q[j] /\ pushedAt[q[i]] <= pushedAt[q[j]]}

SearchPages(keyword, start_date) ==
    {SubSeq(q, 1, Min(PerPage, Len(q))) : q \in Ascending(Matching(keyword, start_date))}

\* "if repos_scraped >= num: return"
QuotaReached(scraped, quota) == scraped >= quota

\* the statement the run goes on with after the for loop over items
AfterItemsSkipsThrottle == "paginate"
AfterItems == "throttle"

\* "if len(items) < per_page: break"
KeywordExhaustedOnEmptyPage(page) == Len(page) = 0
KeywordExhausted(page) == Len(page) < PerPage

ResetRunHistory ==
    /\ runProcessed' = 0
    /\ searchFetches' = 0
    /\ throttleCalls' = 0
    /\ pageNo' = 0
    /\ searchStatus' = 0
    /\ dotWrites' = 0
    /\ lastContents' = [repo |-> 0, outcome |-> "none", writesBefore |-> 0]
    /\ errorSeen' = FALSE
    /\ afterError' = 0
    /\ abortCause' = "none"

\* a call scrape_dotfiles_repos(num)
DotStartRun ==
    /\ dpc \in {"idle", "returned", "aborted"}
    /\ runs < MaxRuns
    /\ \E n \in Quotas : num' = n
    /\ runs' = runs + 1
    /\ repos_scraped' = 0
    /\ kw' = 1
    /\ dpc' = "keyword"
    /\ items' = <<>>
    /\ pos' = 1
    /\ last_pushed_date' = EARLIEST_PUSHED_DATE
    /\ ResetRunHistory
    /\ UNCHANGED <<pushedAt, match, dotDb, processed>>
    /\ UNCHANGED notDot

\* head of "for repo_name in _DOTFILE_REPO_NAMES", or the final return
DotKeyword ==
    /\ dpc = "keyword"
    /\ IF kw > NKeywords
       THEN /\ dpc' = "returned"
            /\ UNCHANGED <<last_pushed_date, pageNo, afterError>>
       ELSE /\ last_pushed_date' = StartDate(GetLatestWithKeyword(kw))
            /\ pageNo' = 0
            /\ afterError' = afterError + (IF errorSeen THEN 1 ELSE 0)
            /\ dpc' = "search"
    /\ UNCHANGED <<pushedAt, match, dotDb, num, kw, items, pos, repos_scraped, runs,
                   processed, runProcessed, searchFetches, throttleCalls,
                   searchStatus, dotWrites, lastContents, errorSeen, abortCause>>
    /\ UNCHANGED notDot

\* get_api_page('search/repositories', ...) and "items = search_data.get(...)"
DotSearch ==
    /\ dpc = "search"
    /\ searchFetches' = searchFetches + 1
    /\ pageNo' = pageNo + 1
    /\ pos' = 1
    /\ \/ \* 200: the page
          /\ \E page \in SearchPages(kw, last_pushed_date) : items' = page
          /\ searchStatus' = 200
          /\ dpc' = "items"
          /\ UNCHANGED <<errorSeen, abortCause>>
       \/ \* 403 with GitHub's JSON error object: it has no 'items'
          /\ items' = <<>>
          /\ searchStatus' = 403
          /\ errorSeen' = TRUE
          /\ dpc' = "items"
          /\ UNCHANGED abortCause
       \/ \* requests.get or res.json() raises
          /\ searchStatus' = 0
          /\ abortCause' = "transport"
          /\ dpc' = "aborted"
          /\ UNCHANGED <<items, errorSeen>>
    /\ UNCHANGED <<pushedAt, match, dotDb, num, kw, last_pushed_date, repos_scraped,
                   runs, processed, runProcessed, throttleCalls, dotWrites,
                   lastContents, afterError>>
    /\ UNCHANGED notDot

\* _get_plugin_repos_from_dotfiles, the record it upserts
Upserted(repo_data, search_keyword) ==
    [present |-> TRUE,
     pushed_at |-> ToTimestamp(pushedAt[repo_data]),
     search_keyword |-> search_keyword]

\* the negation of "res.status_code == 404 or not isinstance(contents_data,
\* list)", by what the contents fetch answered: a 403 carries a JSON object
ContentsFoundUnlessNotFound(outcome) == outcome # "404"
ContentsFound(outcome) == outcome = "list"

\* one iteration of "for item in items": _get_plugin_repos_from_dotfiles, the
\* counter and the quota test
DotItem ==
    /\ dpc = "items"
    /\ pos <= Len(items)
    /\ LET item == items[pos]
       IN  \E outcome \in {"list", "TypeError", "404", "403", "transport"} :
              /\ lastContents' = [repo |-> item, outcome |-> outcome,
                                  writesBefore |-> dotWrites]
              /\ errorSeen' = (errorSeen \/ outcome = "403")
              /\ afterError' = afterError + (IF errorSeen THEN 1 ELSE 0)
              /\ IF outcome \in {"TypeError", "transport"}
                 THEN \* the walker's any(None), or the fetch, raises
                      /\ abortCause' = outcome
                      /\ dpc' = "aborted"
                      /\ UNCHANGED <<dotDb, dotWrites, processed, runProcessed,
                                     repos_scraped, pos>>
                 ELSE /\ IF ContentsFound(outcome)
                         THEN /\ dotDb' = [dotDb EXCEPT ![item] = Upserted(item, kw)]
                              /\ dotWrites' = dotWrites + 1
                         ELSE UNCHANGED <<dotDb, dotWrites>>
                      /\ processed' = processed \cup {item}
                      /\ runProcessed' = runProcessed + 1
                      /\ repos_scraped' = repos_scraped + 1
                      /\ IF QuotaReached(repos_scraped + 1, num)
                         THEN dpc' = "returned" /\ UNCHANGED pos
                         ELSE pos' = pos + 1 /\ UNCHANGED dpc
                      /\ UNCHANGED abortCause
    /\ UNCHANGED <<pushedAt, match, num, kw, last_pushed_date, items, runs,
                   searchFetches, throttleCalls, pageNo, searchStatus>>
    /\ UNCHANGED notDot

\* the for loop over items is over
DotItemsDone ==
    /\ dpc = "items"
    /\ pos > Len(items)
    /\ dpc' = AfterItems
    /\ UNCHANGED <<pushedAt, match, dotDb, num, kw, last_pushed_date, items, pos,
                   repos_scraped, runs, processed, runProcessed, searchFetches,
                   throttleCalls, pageNo, searchStatus, dotWrites, lastContents,
                   errorSeen, afterError, abortCause>>
    /\ UNCHANGED notDot

\* maybe_wait_until_api_limit_resets(response.headers)
DotThrottle ==
    /\ dpc = "throttle"
    /\ throttleCalls' = throttleCalls + 1
    /\ dpc' = "paginate"
    /\ UNCHANGED <<pushedAt, match, dotDb, num, kw, last_pushed_date, items, pos,
                   repos_scraped, runs, processed, runProcessed, searchFetches,
                   pageNo, searchStatus, dotWrites, lastContents, errorSeen,
                   afterError, abortCause>>
    /\ UNCHANGED notDot

\* "last_pushed_date = dateutil.parser.parse(items[-1]['pushed_at'])"
NextCursorStays(page) == last_pushed_date
NextCursor(page) == pushedAt[page[Len(page)]]

\* "if len(items) < per_page: break / else: last_pushed_date = ..."
DotPaginate ==
    /\ dpc = "paginate"
    /\ IF KeywordExhausted(items)
       THEN /\ kw' = kw + 1
            /\ dpc' = "keyword"
            /\ UNCHANGED last_pushed_date
       ELSE /\ last_pushed_date' = NextCursor(items)
            /\ dpc' = "search"
            /\ UNCHANGED kw
    /\ UNCHANGED <<pushedAt, match, dotDb, num, items, pos, repos_scraped, runs,
                   processed, runProcessed, searchFetches, throttleCalls, pageNo,
                   searchStatus, dotWrites, lastContents, errorSeen, afterError,
                   abortCause>>
    /\ UNCHANGED notDot

DotIdle ==
    /\ num = 0
    /\ kw = 1
    /\ last_pushed_date = EARLIEST_PUSHED_DATE
    /\ items = <<>>
    /\ pos = 1
    /\ repos_scraped = 0
    /\ runs = 0
    /\ processed = {}
    /\ runProcessed = 0
    /\ searchFetches = 0
    /\ throttleCalls = 0
    /\ pageNo = 0
    /\ searchStatus = 0
    /\ dotWrites = 0
    /\ lastContents = [repo |-> 0, outcome |-> "none", writesBefore |-> 0]
    /\ errorSeen = FALSE
    /\ afterError = 0
    /\ abortCause = "none"

\* an empty table, and any remote whose repos are numbered by push date
InitDot ==
    /\ dpc = "idle"
    /\ pushedAt \in {f \in [Repos -> Dates] :
                        \A r \in Repos : r > 1 => f[r - 1] <= f[r]}
    /\ match \in [Repos -> (SUBSET Keywords) \ {{}}]
    /\ dotDb = [r \in Repos |-> NoRecord]
    /\ DotIdle

DotOff ==
    /\ dpc = "off"
    /\ pushedAt = [r \in Repos |-> 0]
    /\ match = [r \in Repos |-> {}]
    /\ dotDb = [r \in Repos |-> NoRecord]
    /\ DotIdle

NextDot ==
    \/ DotStartRun
    \/ DotKeyword
    \/ DotSearch
    \/ DotItem
    \/ DotItemsDone
    \/ DotThrottle
    \/ DotPaginate

-----------------------------------------------------------------------------
(* Known-plugin re-scraper: scrape_plugin_repos and fetch_plugin *)

PluginRepos == 1..NPluginRepos
PluginQuotas == 0..MaxQuota

\* the query of scrape_plugin_repos: the num non-blacklisted records least
\* recently scraped; records scraped at the same time come in any order
Selectable == {r \in PluginRepos : ~pluginRepos[r].is_blacklisted}

LeastRecentlyScraped(S) ==
    {q \in [1..Cardinality(S) -> S] :
        \A i, j \in 1..Cardinality(S) :
            i < j => /\ q[i] # q[j]
                     /\ pluginRepos[q[i]].last_scraped_at
                            <= pluginRepos[q[j]].last_scraped_at}

Selected(n) ==
    {SubSeq(q, 1, Min(n, Len(q))) : q \in LeastRecentlyScraped(Selectable)}

\* fetch_plugin(owner, repo_name) by the status of repos/<owner>/<repo>:
\* 404 returns (None, repo_data); 200 returns (repo, repo_data); any other
\* status carries GitHub's JSON error object, and repo_data['homepage']
\* raises KeyError
FetchPluginTakesErrorForNotFound(status) ==
    IF status = 200 THEN [raised |-> FALSE, plugin |-> TRUE, repo_data |-> "repo"]
    ELSE [raised |-> FALSE, plugin |-> FALSE, repo_data |-> "not found"]
FetchPlugin(status) ==
    IF status = 404 THEN [raised |-> FALSE, plugin |-> FALSE, repo_data |-> "not found"]
    ELSE IF status = 200 THEN [raised |-> FALSE, plugin |-> TRUE, repo_data |-> "repo"]
    ELSE [raised |-> TRUE, plugin |-> FALSE, repo_data |-> "error"]

\* PluginGithubRepos.log_scrape: stamps the record with the time of the scrape
LogScrape(rec, time) == [rec EXCEPT !.last_scraped_at = time]

\* the writes of one loop iteration after fetch_plugin returned, in order
WritesUpsertFirst(r, plugin) ==
    (IF plugin THEN <<[op |-> "upsert_plugin", repo |-> r]>> ELSE <<>>)
    \o <<[op |-> "log_scrape", repo |-> r], [op |-> "insert", repo |-> r]>>
Writes(r, plugin) ==
    <<[op |-> "log_scrape", repo |-> r], [op |-> "insert", repo |-> r]>>
    \o (IF plugin THEN <<[op |-> "upsert_plugin", repo |-> r]>> ELSE <<>>)

Has(log, op, r) == \E i \in DOMAIN log : log[i] = [op |-> op, repo |-> r]

\* a call scrape_plugin_repos(num)
PlugStartRun ==
    /\ ppc \in {"idle", "returned", "aborted"}
    /\ pruns < MaxRuns
    /\ \E n \in PluginQuotas : \E q \in Selected(n) : pnum' = n /\ repos' = q
    /\ plog' = <<>>
    /\ visited' = <<>>
    /\ perrorSeen' = FALSE
    /\ ppc' = "loop"
    /\ UNCHANGED <<remoteStatus, pluginRepos, plugins, pruns, pclock, pscraped>>
    /\ UNCHANGED notPlug

\* one iteration of "for repo in repos"
PlugStep ==
    /\ ppc = "loop"
    /\ repos # <<>>
    /\ LET repo == Head(repos)
           got == FetchPlugin(remoteStatus[repo])
           writes == Writes(repo, got.plugin)
       IN  /\ visited' = Append(visited, repo)
           /\ pscraped' = pscraped \cup {repo}
           /\ perrorSeen' = (remoteStatus[repo] \notin {200, 404})
           /\ IF got.raised
              THEN /\ ppc' = "aborted"
                   /\ UNCHANGED <<pluginRepos, plugins, pruns, pclock, plog, repos>>
              ELSE /\ plog' = plog \o writes
                   /\ pruns' = IF plog = <<>> THEN pruns + 1 ELSE pruns
                   /\ pluginRepos' =
                        IF Has(writes, "insert", repo)
                        THEN [pluginRepos EXCEPT ![repo] =
                                 [LogScrape(pluginRepos[repo], pclock)
                                     EXCEPT !.repo_data = got.repo_data]]
                        ELSE pluginRepos
                   /\ pclock' = pclock + 1
                   /\ plugins' = IF Has(writes, "upsert_plugin", repo)
                                 THEN plugins \cup {repo}
                                 ELSE plugins
                   /\ repos' = Tail(repos)
                   /\ UNCHANGED ppc
    /\ UNCHANGED <<remoteStatus, pnum>>
    /\ UNCHANGED notPlug

\* the for loop is over
PlugReturn ==
    /\ ppc = "loop"
    /\ repos = <<>>
    /\ ppc' = "returned"
    /\ UNCHANGED <<remoteStatus, pluginRepos, plugins, pnum, repos, pruns, pclock,
                   plog, visited, perrorSeen, pscraped>>
    /\ UNCHANGED notPlug

PlugIdle ==
    /\ plugins = {}
    /\ pnum = 0
    /\ pscraped = {}
    /\ repos = <<>>
    /\ pruns = 0
    /\ pclock = 1
    /\ plog = <<>>
    /\ visited = <<>>
    /\ perrorSeen = FALSE

\* a table of records never scraped, some blacklisted, and any remote
InitPlug ==
    /\ ppc = "idle"
    /\ remoteStatus \in [PluginRepos -> {200, 404, 403}]
    /\ pluginRepos \in [PluginRepos -> [is_blacklisted : BOOLEAN,
                                        last_scraped_at : {0},
                                        repo_data : {"none"}]]
    /\ PlugIdle

PlugOff ==
    /\ ppc = "off"
    /\ remoteStatus = [r \in PluginRepos |-> 200]
    /\ pluginRepos = [r \in PluginRepos |->
                        [is_blacklisted |-> TRUE, last_scraped_at |-> 0,
                         repo_data |-> "none"]]
    /\ PlugIdle

NextPlug == PlugStartRun \/ PlugStep \/ PlugReturn

-----------------------------------------------------------------------------
(* fetch_plugin: the reconciliation of created_at and updated_at *)

\* the date texts GitHub sends, earliest first
DATE_TEXTS == <<"2019-06-01T00:00:00Z", "2020-01-01T00:00:00Z",
                "2021-03-05T00:00:00Z">>

\* dateutil.parser.parse on these texts: the point in time, as the rank of the
\* text in DATE_TEXTS
ParseDate(text) == CHOOSE i \in DOMAIN DATE_TEXTS : DATE_TEXTS[i] = text

DateTexts == {DATE_TEXTS[i] : i \in DOMAIN DATE_TEXTS}

\* a commit of the commits listing: commit.author.date
Commit(text) == [commit |-> [author |-> [date |-> text]]]

\* the bodies of the commits fetch: a list of at most MaxCommits commits, most
\* recent first as far as GitHub is concerned, or GitHub's JSON error object
CommitsBodies ==
    {[kind |-> "list", list |-> l] :
        l \in SeqUpTo({Commit(t) : t \in DateTexts}, MaxCommits)}
    \cup {[kind |-> "dict", list |-> <<>>]}

\* "commits_data and isinstance(commits_data, list) and len(commits_data)"
HasCommits(body) == body.kind = "list" /\ Len(body.list) > 0

\* commits_data[-1], the commit the created date is compared with
EarlyCommitIsFirst(list) == list[1]
EarlyCommit(list) == list[Len(list)]

\* lines 146-166
ReconcileDates ==
    /\ tpc = "call"
    /\ LET repo_created_date == ParseDate(repo_dates.created_at)
       IN  IF HasCommits(commits_data)
           THEN LET updated_date_text ==
                        commits_data.list[1].commit.author.date
                    early_commit_date_text ==
                        EarlyCommit(commits_data.list).commit.author.date
                    early_commit_date == ParseDate(early_commit_date_text)
                IN  /\ updated_date' = ParseDate(updated_date_text)
                    /\ created_date' = Min(repo_created_date, early_commit_date)
           ELSE /\ updated_date' = ParseDate(repo_dates.updated_at)
                /\ created_date' = repo_created_date
    /\ tpc' = "returned"
    /\ UNCHANGED <<repo_dates, commits_data>>
    /\ UNCHANGED notDates

InitDates ==
    /\ tpc = "call"
    /\ repo_dates \in [created_at : DateTexts, updated_at : DateTexts]
    /\ commits_data \in CommitsBodies
    /\ created_date = 0
    /\ updated_date = 0

DatesOff ==
    /\ tpc = "off"
    /\ repo_dates = [created_at |-> DATE_TEXTS[1], updated_at |-> DATE_TEXTS[1]]
    /\ commits_data = [kind |-> "dict", list |-> <<>>]
    /\ created_date = 0
    /\ updated_date = 0

NextDates == ReconcileDates

-----------------------------------------------------------------------------
(* get_api_page: the URL it requests *)

\* a dict is a function from the set of its keys
EmptyDict == [k \in {} |-> ""]

\* dict.update
Update(d, e) ==
    [k \in DOMAIN d \cup DOMAIN e |-> IF k \in DOMAIN e THEN e[k] ELSE d[k]]

\* dict(list of pairs): a later pair replaces an earlier one of the same key
RECURSIVE DictOf(_)
DictOf(pairs) ==
    IF pairs = <<>> THEN EmptyDict
    ELSE LET last == pairs[Len(pairs)]
         IN  Update(DictOf(SubSeq(pairs, 1, Len(pairs) - 1)),
                    [k \in {last.key} |-> last.value])

\* urlparse.parse_qsl with its default keep_blank_values=0: the pairs of the
\* query in order, without the pairs whose value is blank
ParseQsl(pairs) == SelectSeq(pairs, LAMBDA p : p.value # "")

\* the keys and values of the inputs; urlencode renders page and per_page,
\* which are ints, as these texts
QueryKeys == {"page", "access_token", "q"}
UrlValues == {"u", "v", ""}
ExtraValues == {"x", ""}
UrlQueries ==
    SeqUpTo([key : QueryKeys, value : UrlValues], MaxPairs)
NoParams == [kind |-> "None", dict |-> EmptyDict]
ExtraParams ==
    {[kind |-> "dict", dict |-> d] :
        d \in UNION {[S -> ExtraValues] : S \in SUBSET QueryKeys}}
    \cup {NoParams}

\* what callers pass: an API method, a full URL of the API as GitHub's bodies
\* carry it, and a URL of another scheme and host with a fragment
\* a path is its text after the leading "/", and whether it has one
Path(rooted, rest) == [rooted |-> rooted, rest |-> rest]

UrlShapes ==
    {[scheme |-> "", netloc |-> "", path |-> Path(FALSE, "search/repositories"),
      fragment |-> ""],
     [scheme |-> "https", netloc |-> "api.github.com",
      path |-> Path(TRUE, "repos/o/r/contents/.vimrc"), fragment |-> ""],
     [scheme |-> "http", netloc |-> "example.com", path |-> Path(TRUE, "x"),
      fragment |-> "top"]}

\* SplitResult(...).geturl(): with a netloc, urlunsplit puts a "/" before a
\* path that has none
GetUrlPath(path) == Path(TRUE, path.rest)

DefaultQuery == [k \in {"page", "per_page"} |->
                    IF k = "page" THEN "1" ELSE "100"]

\* lines 83-101, up to the call of requests.get
GetApiPage ==
    /\ gpc = "call"
    /\ LET split_url == url_or_path
           query0 == DefaultQuery
           query1 == IF token # ""
                     THEN Update(query0, [k \in {"access_token"} |-> token])
                     ELSE query0
           query2 == Update(query1, DictOf(ParseQsl(split_url.query)))
           query3 == Update(query2, query_params.dict)
       IN  requested' = [scheme |-> "https", netloc |-> "api.github.com",
                         path |-> GetUrlPath(split_url.path), query |-> query3,
                         fragment |-> split_url.fragment]
    /\ gpc' = "requested"
    /\ UNCHANGED <<token, url_or_path, query_params>>
    /\ UNCHANGED notApi

NoRequest == [scheme |-> "", netloc |-> "", path |-> Path(FALSE, ""),
              query |-> EmptyDict, fragment |-> ""]

InitApi ==
    /\ gpc = "call"
    /\ token \in {"", "t"}
    /\ \E shape \in UrlShapes, q \in UrlQueries :
          url_or_path = [scheme |-> shape.scheme, netloc |-> shape.netloc,
                         path |-> shape.path, query |-> q,
                         fragment |-> shape.fragment]
    /\ query_params \in ExtraParams
    /\ requested = NoRequest

ApiOff ==
    /\ gpc = "off"
    /\ token = ""
    /\ url_or_path = [scheme |-> "", netloc |-> "", path |-> Path(FALSE, ""),
                      query |-> <<>>, fragment |-> ""]
    /\ query_params = NoParams
    /\ requested = NoRequest

NextApi == GetApiPage

-----------------------------------------------------------------------------
(* _get_plugin_repos_from_dotfiles: the record it logs and upserts *)

\* the keys of the dict literal at lines 390-396
COMPUTED_FIELDS == {"owner", "pushed_at", "repo_name", "search_keyword",
                    "vundle_repos", "neobundle_repos", "pathogen_repos"}

\* fields a stored record can have besides: the one log_scrape keeps, and one
\* this module never names
OTHER_FIELDS == {"last_scraped_at", "notes"}

NoDict == [kind |-> "None", dict |-> EmptyDict]

\* the records get_with_owner_repo can return for (owner, repo_name): they
\* hold these two fields, with the values this pass computes
PriorRecords ==
    {[kind |-> "dict", dict |-> d] :
        d \in UNION {[S \cup {"owner", "repo_name"} -> {"old"}] :
                        S \in SUBSET (COMPUTED_FIELDS \cup OTHER_FIELDS)}}
    \cup {NoDict}

\* the values this pass computes: owner and repo_name are those of the record
\* looked up, each other field is what it was or a new value
ComputedDicts ==
    {d \in [COMPUTED_FIELDS -> {"old", "new"}] :
        /\ d["owner"] = "old"
        /\ d["repo_name"] = "old"
        /\ d["vundle_repos"] = d["neobundle_repos"]
        /\ d["pathogen_repos"] = "old"}

\* dict(db_repo or {}, **{...})
MergePriorWins(prior, new) == Update(new, prior.dict)
Merge(prior, new) == Update(prior.dict, new)

\* DotfilesGithubRepos.log_scrape: notes on the dict that the repo has just
\* been scraped
DotfilesLogScrape(d) == Update(d, [k \in {"last_scraped_at"} |-> "now"])

\* DotfilesGithubRepos.upsert_with_owner_repo: the record of (owner,
\* repo_name) takes the fields of the dict
UpsertWithOwnerRepo(old, d) == Update(old.dict, d)

\* lines 382-400
MergeAndUpsert ==
    /\ mpc = "call"
    /\ LET repo == Merge(db_repo, computed)
       IN  /\ repo_dict' = repo
           /\ stored' = UpsertWithOwnerRepo(db_repo, DotfilesLogScrape(repo))
    /\ mpc' = "returned"
    /\ UNCHANGED <<db_repo, computed>>
    /\ UNCHANGED notMerge

InitMerge ==
    /\ mpc = "call"
    /\ db_repo \in PriorRecords
    /\ computed \in ComputedDicts
    /\ repo_dict = EmptyDict
    /\ stored = db_repo.dict

MergeOff ==
    /\ mpc = "off"
    /\ db_repo = NoDict
    /\ computed = [f \in COMPUTED_FIELDS |-> "old"]
    /\ repo_dict = EmptyDict
    /\ stored = EmptyDict

NextMerge == MergeAndUpsert

-----------------------------------------------------------------------------
(* _extract_bundle_repos_from_file on its own *)

\* the concatenation of a sequence of strings
RECURSIVE Concat(_)
Concat(parts) ==
    IF parts = <<>> THEN <<>> ELSE Head(parts) \o Concat(Tail(parts))

\* directive arguments: one to MaxParts of these parts in a row
ARG_PARTS == {<<"a">>, <<"/">>, DOT_GIT, <<":">>}
Args == {Concat(parts) : parts \in SeqUpTo(ARG_PARTS, MaxParts)} \ {<<>>}

\* the lines of the files with several lines
ExtractLines ==
    Lines \cup { [directive |-> "Bundle",    arg |-> <<"c">> \o DOT_GIT],
                 [directive |-> "NeoBundle", arg |-> <<"a","/">>] }

\* the files: one Bundle line with any argument, or some lines of ExtractLines
ExtractFiles ==
    {<<[directive |-> "Bundle", arg |-> a]>> : a \in Args}
    \cup SeqUpTo(ExtractLines, MaxLines)

\* lines 291-295
ExtractFromFile ==
    /\ xpc = "call"
    /\ extracted' = ExtractBundleReposFromFile(contents_decoded)
    /\ xpc' = "returned"
    /\ UNCHANGED contents_decoded
    /\ UNCHANGED notExtract

InitExtract ==
    /\ xpc = "call"
    /\ contents_decoded \in ExtractFiles
    /\ extracted = EmptyPair

ExtractOff ==
    /\ xpc = "off"
    /\ contents_decoded = <<>>
    /\ extracted = EmptyPair

NextExtract == ExtractFromFile

FunOff == DatesOff /\ ApiOff /\ MergeOff /\ ExtractOff

-----------------------------------------------------------------------------
(* Directory walker: initial state *)

InitWalk ==
    /\ wpc = "idle"
    /\ stack = <<>>
    /\ retval = EmptyPair
    /\ enteredDepths = {}
    /\ fileFetchDepths = {}
    /\ fetches = 0
    /\ yields = 0
    /\ yieldResult = EmptyPair
    /\ lateFetches = 0
    /\ retDepth = 0

WalkOff ==
    /\ wpc = "off"
    /\ stack = <<>>
    /\ retval = EmptyPair
    /\ enteredDepths = {}
    /\ fileFetchDepths = {}
    /\ fetches = 0
    /\ yields = 0
    /\ yieldResult = EmptyPair
    /\ lateFetches = 0
    /\ retDepth = 0

NextWalk == WalkStart \/ WalkEnter \/ WalkFile \/ WalkDir \/ WalkReturn

-----------------------------------------------------------------------------
(* Specifications: one per machine, and the four side by side *)

InitWalkOnly == InitWalk /\ RateOff /\ DotOff /\ PlugOff /\ FunOff
InitRateOnly == WalkOff /\ InitRate /\ DotOff /\ PlugOff /\ FunOff
InitDotOnly  == WalkOff /\ RateOff /\ InitDot /\ PlugOff /\ FunOff
InitPlugOnly == WalkOff /\ RateOff /\ DotOff /\ InitPlug /\ FunOff
MachinesOff == WalkOff /\ RateOff /\ DotOff /\ PlugOff
InitDatesOnly == MachinesOff /\ InitDates /\ ApiOff /\ MergeOff /\ ExtractOff
InitApiOnly == MachinesOff /\ DatesOff /\ InitApi /\ MergeOff /\ ExtractOff
InitMergeOnly == MachinesOff /\ DatesOff /\ ApiOff /\ InitMerge /\ ExtractOff
InitExtractOnly == MachinesOff /\ DatesOff /\ ApiOff /\ MergeOff /\ InitExtract

SpecWalk == InitWalkOnly /\ [][NextWalk]_vars
SpecRate == InitRateOnly /\ [][NextRate]_vars
SpecDot  == InitDotOnly /\ [][NextDot]_vars

\* the tables earlier runs can have left for a remote: a record for some of
\* the repos the search can return, each as a run upserts it
DotTables ==
    {t \in [Repos -> [present : BOOLEAN, pushed_at : {0} \cup Dates,
                      search_keyword : {0} \cup Keywords]] :
        \A r \in Repos :
            IF t[r].present
            THEN /\ pushedAt[r] > EARLIEST_PUSHED_DATE
                 /\ \E k \in match[r] : t[r] = Upserted(r, k)
            ELSE t[r] = NoRecord}

\* a run about to start on any remote and any such table; it is the last run
\* the model follows
InitDotAnyRun ==
    /\ dpc = "idle"
    /\ pushedAt \in {f \in [Repos -> Dates] :
                        \A r \in Repos : r > 1 => f[r - 1] <= f[r]}
    /\ match \in [Repos -> (SUBSET Keywords) \ {{}}]
    /\ dotDb \in DotTables
    /\ runs = MaxRuns - 1
    /\ processed = {r \in Repos : dotDb[r].present}
    /\ num = 0
    /\ kw = 1
    /\ last_pushed_date = EARLIEST_PUSHED_DATE
    /\ items = <<>>
    /\ pos = 1
    /\ repos_scraped = 0
    /\ runProcessed = 0
    /\ searchFetches = 0
    /\ throttleCalls = 0
    /\ pageNo = 0
    /\ searchStatus = 0
    /\ dotWrites = 0
    /\ lastContents = [repo |-> 0, outcome |-> "none", writesBefore |-> 0]
    /\ errorSeen = FALSE
    /\ afterError = 0
    /\ abortCause = "none"

\* a run that was started runs on: nothing but the calls it makes, which all
\* return or raise, stands between two of its statements
DotRunStep ==
    DotKeyword \/ DotSearch \/ DotItem \/ DotItemsDone \/ DotThrottle \/ DotPaginate
InitDotAnyRunOnly == WalkOff /\ RateOff /\ InitDotAnyRun /\ PlugOff /\ FunOff
SpecDotFair ==
    /\ InitDotAnyRunOnly
    /\ [][NextDot]_vars
    /\ WF_vars(DotRunStep)
SpecPlug == InitPlugOnly /\ [][NextPlug]_vars

\* repeated runs: a run that was started runs on, and while the model follows
\* another run, one is started
SpecPlugFair ==
    /\ SpecPlug
    /\ WF_vars(PlugStep \/ PlugReturn)
    /\ WF_vars(PlugStartRun)
SpecDates == InitDatesOnly /\ [][NextDates]_vars
SpecApi == InitApiOnly /\ [][NextApi]_vars
SpecMerge == InitMergeOnly /\ [][NextMerge]_vars
SpecExtract == InitExtractOnly /\ [][NextExtract]_vars

Init ==
    \/ InitWalkOnly \/ InitRateOnly \/ InitDotOnly \/ InitPlugOnly
    \/ InitDatesOnly \/ InitApiOnly \/ InitMergeOnly \/ InitExtractOnly
Next ==
    \/ NextWalk \/ NextRate \/ NextDot \/ NextPlug
    \/ NextDates \/ NextApi \/ NextMerge \/ NextExtract
Spec == Init /\ [][Next]_vars

-----------------------------------------------------------------------------
(* Claims about the directory walker *)

\* C2: every invocation of the walker returns a pair of sequences: an
\* invocation at the depth limit returns the empty pair ([], []), and no
\* calling level fails on the value it receives.
C2_EveryInvocationReturnsAPair ==
    /\ wpc = "ret" => retval.kind = "tuple"
    /\ wpc = "ret" /\ retDepth >= 3 => retval = EmptyPair
    /\ wpc # "raised"

\* C3: in a walk started at depth 0 the walker is never entered at a depth
\* greater than 3 and never fetches a file of a listing at depth 3 or deeper.
C3_DepthCap ==
    /\ \A d \in enteredDepths : d <= 3
    /\ \A i \in DOMAIN stack : stack[i].depth <= 3
    /\ \A d \in fileFetchDepths : d < 3

\* the walker was entered at depth 3, below a listing at depth 2 whose
\* candidate file had been fetched
C3_Witness ==
    /\ 3 \in enteredDepths
    /\ 2 \in fileFetchDepths

\* C4: once a fetched candidate file yields a reference, the walk returns
\* that file's result pair and issues no further fetch (no file contents, no
\* subdirectory listing); at most one fetched file of a walk yields.
C4_FirstMatchShortCircuit ==
    /\ yields <= 1
    /\ lateFetches = 0
    /\ yields = 1 => /\ wpc \in {"ret", "done"}
                     /\ retval = yieldResult
                     /\ AnyOf(retval)

\* a file two levels down yielded after an earlier candidate file had been
\* fetched and yielded nothing, and the walk ended with that file's result
C4_Witness ==
    /\ wpc = "done"
    /\ yields = 1
    /\ fetches >= 4
    /\ retval = yieldResult
    /\ retval.neobundle # <<>>

-----------------------------------------------------------------------------
(* Claims about the dotfiles discoverer *)

\* C1: whenever the cursor of a keyword has value c (the start value of a run
\* or the value a full page advanced it to), every remote repo matching the
\* keyword with pushed_at in (floor, c] has been processed, so the next query
\* 'pushed > c' skips no such repo.
C1_CursorInvariant ==
    dpc = "search" =>
        \A r \in Repos :
            kw \in match[r] /\ pushedAt[r] > 1 /\ pushedAt[r] <= last_pushed_date
                => r \in processed

\* C5: for every quota num a run processes at most num search results, and
\* the count it returns does not exceed num.
C5_QuotaBound ==
    dpc \in {"keyword", "search", "items", "throttle", "paginate", "returned"}
        => /\ runProcessed <= num
           /\ dpc = "returned" => repos_scraped <= num

\* C7 as stated: every search page fetched is followed by one call of the
\* rate limiter before the run fetches another search page or ends.
C7_ThrottleAfterEveryPage ==
    dpc \in {"keyword", "search", "returned"} => throttleCalls = searchFetches

\* C7 as amended: the rate limiter is called once for every search page whose
\* items were all handled without reaching the quota, before the run fetches
\* another search page; the page during which the run returns on the quota is
\* followed by no call; the calls never outnumber the search pages, whatever
\* the number of contents fetches.
C7_ThrottleBetweenPages ==
    /\ throttleCalls <= searchFetches
    /\ searchFetches <= throttleCalls + 1
    /\ dpc \in {"keyword", "search"} => throttleCalls = searchFetches
    /\ dpc = "returned" /\ pos > Len(items) => throttleCalls = searchFetches
    /\ dpc = "returned" /\ pos <= Len(items) => throttleCalls = searchFetches - 1

\* a full page was handled, the limiter called, and the second page of the
\* keyword is about to be fetched
C7_Witness ==
    /\ dpc = "search"
    /\ pageNo = 1
    /\ runProcessed = 2
    /\ throttleCalls = 1

\* C10: the first query of a keyword filters on pushed > max(floor, P), P the
\* greatest pushed_at persisted for the keyword, and on pushed > floor when
\* the keyword has no record or no pushed_at; no query filters below the floor.
C10_StartFilter ==
    LET S == {dotDb[r].pushed_at :
                 r \in {q \in Repos : dotDb[q].present /\ dotDb[q].search_keyword = kw}}
    IN  /\ dpc = "search" /\ pageNo = 0 =>
            IF S = {} \/ S = {0}
            THEN last_pushed_date = 1
            ELSE \E P \in S : /\ \A x \in S : x <= P
                              /\ last_pushed_date = IF P > 1 THEN P ELSE 1
        /\ dpc = "search" => last_pushed_date >= 1

\* a later run begins a keyword whose latest record was pushed after the floor
C10_Witness ==
    /\ dpc = "search"
    /\ pageNo = 0
    /\ runs = 2
    /\ last_pushed_date = 3
    /\ \E r \in Repos : dotDb[r].present /\ dotDb[r].search_keyword = kw

-----------------------------------------------------------------------------
(* Claims about the rate limiter *)

\* C6: for whole-second values of reset_time and now, the limiter blocks for
\* exactly reset_time - now + 1 seconds when X-RateLimit-Remaining is '0', and
\* returns without blocking for any other value.
C6_BlocksUntilReset ==
    rpc = "returned" /\ now.micro = 0 =>
        slept = IF headers.remaining = "0"
                THEN headers.reset - now.sec + 1
                ELSE 0

-----------------------------------------------------------------------------
(* Claims about the known-plugin re-scraper and both orchestrators *)

LastOf(q) == q[Len(q)]

C9_NotFoundLoggedAndSkipped ==
    \A i \in DOMAIN visited :
        LET r == visited[i]
        IN  /\ remoteStatus[r] = 404 =>
                /\ Has(plog, "log_scrape", r)
                /\ ~Has(plog, "upsert_plugin", r)
                /\ r \notin plugins
                /\ ppc # "aborted" \/ i < Len(visited)
                /\ pluginRepos[r].repo_data = "not found"
            /\ remoteStatus[r] = 200 =>
                \E j, k \in DOMAIN plog :
                    /\ j < k
                    /\ plog[j] = [op |-> "log_scrape", repo |-> r]
                    /\ plog[k] = [op |-> "upsert_plugin", repo |-> r]

\* a run visited a record answered 404 and then one answered 200
C9_Witness ==
    /\ Len(visited) = 2
    /\ remoteStatus[visited[1]] = 404
    /\ remoteStatus[visited[2]] = 200
    /\ visited[2] \in plugins

-----------------------------------------------------------------------------
(* Contents-not-found outcome of the discoverer *)

\* the answers of the root contents fetch the test at line 375 takes for
\* "contents not found": a 404, or a body that is not a list
NotFoundOutcomes == {"404", "403"}

\* the for loop over items, after one search result was handled, either stands
\* at the next result or has left the function on the quota test
LoopGoesOn ==
    \/ dpc' = "items" /\ pos' = pos + 1 /\ items' = items
    \/ dpc' = "returned" /\ QuotaReached(repos_scraped', num)

\* C11: a root contents fetch answered by 404 or by a body that is not a list
\* makes no extraction and no write for that repo (the upsert count of the run
\* is what it was before the fetch, and the table is unchanged), raises
\* nothing, and the item loop goes on: the result is counted and the loop
\* stands at the next search result, or returns on the quota test.
C11_ContentsNotFound ==
    /\ [](lastContents.outcome \in NotFoundOutcomes =>
            /\ dotWrites = lastContents.writesBefore
            /\ abortCause \notin {"TypeError"}
            /\ (dpc = "aborted" => abortCause = "transport" /\ searchStatus = 0))
    /\ [][ (dpc = "items" /\ lastContents' # lastContents
              /\ lastContents'.outcome \in NotFoundOutcomes)
           => /\ dotDb' = dotDb
              /\ dotWrites' = dotWrites
              /\ runProcessed' = runProcessed + 1
              /\ LoopGoesOn ]_vars

\* the first result of a page was answered 404 and left no record; the second
\* result of the same page was then handled and persisted
C11_Witness ==
    /\ dpc = "items"
    /\ ~errorSeen
    /\ runProcessed = 2
    /\ dotWrites = 1
    /\ pos = 3
    /\ lastContents.outcome = "list"
    /\ lastContents.writesBefore = 0
    /\ ~dotDb[items[1]].present
    /\ dotDb[items[2]].present

-----------------------------------------------------------------------------
(* Claims about fetch_plugin *)

\* C12: with a non-empty list of commits, created_date is the earlier of the
\* repo's creation date and the author date of the last commit of the list,
\* and updated_date is the author date of the first commit of the list; with
\* an empty list or a body that is not a list, created_date is the repo's
\* creation date and updated_date is the repo's updated_at.
C12_DateReconciliation ==
    tpc = "returned" =>
        LET raw == ParseDate(repo_dates.created_at)
            l == commits_data.list
        IN  IF commits_data.kind = "list" /\ l # <<>>
            THEN LET last == ParseDate(l[Len(l)].commit.author.date)
                 IN  /\ created_date \in {raw, last}
                     /\ created_date <= raw
                     /\ created_date <= last
                     /\ updated_date = ParseDate(l[1].commit.author.date)
            ELSE /\ created_date = raw
                 /\ updated_date = ParseDate(repo_dates.updated_at)

\* the spec's example: a repo created 2020-01-01 whose oldest fetched commit
\* is of 2019-06-01, after a newer first commit
C12_Witness ==
    /\ tpc = "returned"
    /\ repo_dates.created_at = "2020-01-01T00:00:00Z"
    /\ Len(commits_data.list) = 2
    /\ commits_data.list[1].commit.author.date = "2021-03-05T00:00:00Z"
    /\ commits_data.list[2].commit.author.date = "2019-06-01T00:00:00Z"
    /\ created_date = 1
    /\ updated_date = 3

-----------------------------------------------------------------------------
(* Claims about get_api_page *)

\* the sources of the merge that define a key, lowest precedence first
SourcesOf(k) ==
    LET q == url_or_path.query
        inUrl == {i \in DOMAIN q : q[i].key = k}
    IN  (IF k \in DOMAIN DefaultQuery THEN <<DefaultQuery[k]>> ELSE <<>>)
        \o (IF k = "access_token" /\ token # "" THEN <<token>> ELSE <<>>)
        \o (IF inUrl # {}
            THEN <<q[CHOOSE i \in inUrl : \A j \in inUrl : j <= i].value>>
            ELSE <<>>)
        \o (IF k \in DOMAIN query_params.dict
            THEN <<query_params.dict[k]>> ELSE <<>>)

AllKeys == QueryKeys \cup DOMAIN DefaultQuery

\* C13: the request carries exactly the keys some source defines, each with
\* the value of the highest source that defines it, in the order defaults,
\* token (when configured), query of the given URL, extra parameters; it goes
\* to https://api.github.com with the path and the fragment of the input.
C13_ParameterMerge ==
    gpc = "requested" =>
        /\ \A k \in AllKeys :
              /\ k \in DOMAIN requested.query <=> SourcesOf(k) # <<>>
              /\ k \in DOMAIN requested.query =>
                    requested.query[k] = LastOf(SourcesOf(k))
        /\ requested.scheme = "https"
        /\ requested.netloc = "api.github.com"
        /\ requested.path.rest = url_or_path.path.rest
        /\ requested.fragment = url_or_path.fragment

-----------------------------------------------------------------------------
(* Claims about the dotfiles record *)

\* the fields of the prior record other than the seven computed ones
PriorOtherFields == DOMAIN db_repo.dict \ COMPUTED_FIELDS

\* C14 as stated: after the pass the seven computed fields of the record hold
\* the new values and every other field of the prior record is unchanged;
\* without a prior record the dict holds exactly the computed fields before
\* logging.
C14_ShallowMerge ==
    mpc = "returned" =>
        /\ \A f \in COMPUTED_FIELDS : stored[f] = computed[f]
        /\ \A f \in PriorOtherFields : stored[f] = db_repo.dict[f]
        /\ db_repo = NoDict => repo_dict = computed

\* C14 as amended: the dict handed to log_scrape holds the seven computed
\* fields with the new values and every other field of the prior record
\* unchanged, and nothing else; the record stored by the pass is that dict
\* with the last-scraped field refreshed by log_scrape, so of the prior
\* record's other fields all but that one are unchanged after the pass.
C14_ShallowMergeBeforeLogging ==
    mpc = "returned" =>
        /\ DOMAIN repo_dict = COMPUTED_FIELDS \cup DOMAIN db_repo.dict
        /\ \A f \in COMPUTED_FIELDS : repo_dict[f] = computed[f]
        /\ \A f \in PriorOtherFields : repo_dict[f] = db_repo.dict[f]
        /\ db_repo = NoDict => repo_dict = computed
        /\ DOMAIN stored = DOMAIN repo_dict \cup {"last_scraped_at"}
        /\ \A f \in DOMAIN repo_dict \ {"last_scraped_at"} :
              stored[f] = repo_dict[f]
        /\ stored["last_scraped_at"] = "now"

\* a pass over a repo whose prior record has a field of its own and a
\* last-scraped field, and whose pushed_at and references have changed
C14_Witness ==
    /\ mpc = "returned"
    /\ db_repo.kind = "dict"
    /\ DOMAIN db_repo.dict = COMPUTED_FIELDS \cup OTHER_FIELDS
    /\ computed["pushed_at"] = "new"
    /\ computed["vundle_repos"] = "new"
    /\ stored["pushed_at"] = "new"
    /\ stored["notes"] = "old"
    /\ stored["search_keyword"] = "old"

-----------------------------------------------------------------------------
(* Claims about the pattern extractor *)

\* the text of an argument after its last "/"
LastSegment(arg) ==
    LET slashes == {i \in DOMAIN arg : arg[i] = "/"}
    IN  IF slashes = {} THEN arg
        ELSE SubSeq(arg, (CHOOSE i \in slashes : \A j \in slashes : j <= i) + 1,
                    Len(arg))

\* C15: the repo name extracted from an argument that ends in ".git" is the
\* argument's last segment without the trailing ".git", no extracted repo
\* name ends in ".git", and an argument without "/" gets the owner vim-scripts.
C15_DotGitStripped ==
    xpc = "returned" =>
        /\ \A i \in DOMAIN extracted.vundle :
              ~EndsWith(extracted.vundle[i].repo, DOT_GIT)
        /\ \A i \in DOMAIN extracted.neobundle :
              ~EndsWith(extracted.neobundle[i].repo, DOT_GIT)
        /\ Len(contents_decoded) = 1 /\ Len(extracted.vundle) = 1 =>
              LET arg == contents_decoded[1].arg
                  seg == LastSegment(arg)
              IN  /\ EndsWith(arg, DOT_GIT) =>
                        extracted.vundle[1].repo
                            = SubSeq(seg, 1, Len(seg) - Len(DOT_GIT))
                  /\ NoSlash(arg) => extracted.vundle[1].owner = DEFAULT_OWNER

\* the lines of the file a pattern of these directives matches and whose
\* argument splits into owner and repo
Splittable(directives) ==
    {i \in DOMAIN contents_decoded :
        /\ contents_decoded[i].directive \in directives
        /\ OwnerRepoSearch(contents_decoded[i].arg) # <<>>}

\* refs holds the reference of each of these lines, in the order of the lines
InFileOrder(refs, directives) ==
    LET S == Splittable(directives)
    IN  /\ Len(refs) = Cardinality(S)
        /\ \A i \in S :
              refs[Cardinality({j \in S : j <= i})]
                  = OwnerRepoSearch(contents_decoded[i].arg)[1]

\* C16: extraction returns for every file; a matched argument that ends in "/"
\* contributes no reference, and every matched argument that splits into
\* owner and repo contributes its reference, in file order, whatever the
\* other lines of the file are.
C16_UnparseableSkipped ==
    /\ xpc \in {"call", "returned"}
    /\ xpc = "returned" =>
          /\ extracted.kind = "tuple"
          /\ InFileOrder(extracted.vundle, VUNDLE_DIRECTIVES)
          /\ InFileOrder(extracted.neobundle, NEOBUNDLE_DIRECTIVES)
          /\ \A i \in DOMAIN contents_decoded :
                EndsWith(contents_decoded[i].arg, <<"/">>) =>
                    i \notin Splittable(VUNDLE_DIRECTIVES \cup NEOBUNDLE_DIRECTIVES)

\* a file whose first Bundle argument ends in "/" and whose second is a/b
C16_Witness ==
    /\ xpc = "returned"
    /\ Len(contents_decoded) = 2
    /\ contents_decoded[1] = [directive |-> "Bundle", arg |-> <<"a","/">>]
    /\ contents_decoded[2] = [directive |-> "Bundle", arg |-> <<"a","/","b">>]
    /\ extracted.vundle = <<[owner |-> <<"a">>, repo |-> <<"b">>]>>
    /\ extracted.neobundle = <<>>

-----------------------------------------------------------------------------
(* Claims about the pagination of the discoverer *)

\* the run is inside the "while True" loop of a keyword
InKeyword == dpc \in {"search", "items", "throttle", "paginate"}

\* C17: after a search page was fully processed, a page of fewer than
\* per_page items makes the run move on to the next keyword; a full page
\* makes it set the cursor to the pushed_at of the page's last item and query
\* the same keyword again, and that query returns only repos pushed after the
\* cursor. Within one keyword the cursor never decreases.
C17_PaginationStep ==
    /\ [][ dpc = "paginate" =>
             IF Len(items) < PerPage
             THEN /\ kw' = kw + 1
                  /\ dpc' = "keyword"
             ELSE /\ kw' = kw
                  /\ last_pushed_date' = pushedAt[items[Len(items)]]
                  /\ dpc' = "search" ]_vars
    /\ [][ InKeyword /\ dpc' # "keyword" /\ runs' = runs =>
             /\ kw' = kw
             /\ last_pushed_date' >= last_pushed_date ]_vars
    /\ [](dpc = "items" /\ searchStatus = 200 =>
             \A i \in DOMAIN items :
                 /\ pushedAt[items[i]] > last_pushed_date
                 /\ kw \in match[items[i]])

\* a full first page moved the cursor of the first keyword, and the second
\* query of that keyword returned the repo pushed after it
C17_Witness ==
    /\ dpc = "items"
    /\ kw = 1
    /\ pageNo = 2
    /\ searchStatus = 200
    /\ last_pushed_date > EARLIEST_PUSHED_DATE
    /\ Len(items) = 1
    /\ runProcessed = PerPage

-----------------------------------------------------------------------------
(* Claims about the order and the filters of the directory walker *)

\* a step of the walker that calls get_api_page
Fetches == fetches' = fetches + 1

\* the lower-cased name holds one of the names
HoldsOneOf(name, names) == \E f \in names : Contains(f, Lower(name))

\* C18: only files whose lower-cased name holds a candidate filename and not
\* "gvimrc" are fetched, and each such file is fetched when the file loop
\* reaches it; the file loop hands over to the directory loop only when no
\* file of the listing is left, so a subdirectory is fetched only after every
\* candidate file of its listing was fetched and none yielded a reference;
\* only subdirectories whose lower-cased name holds a candidate directory
\* name are fetched, in the order of the listing; a subdirectory whose search
\* returns a reference ends the search of the listing with that reference
\* and without another fetch.
C18_FilesBeforeDirs ==
    /\ [][ wpc = "files" /\ Top.files # <<>> =>
             LET name == Head(Top.files).name
             IN  Fetches <=> /\ HoldsOneOf(name, VIMRC_FILENAMES)
                             /\ ~Contains(GVIMRC, Lower(name)) ]_vars
    /\ [][ wpc = "files" /\ wpc' = "dirs" => Top.files = <<>> /\ stack' = stack ]_vars
    /\ [][ wpc = "files" /\ wpc' = "files" =>
             /\ Len(stack') = Len(stack)
             /\ stack'[Len(stack)].files = Tail(Top.files) ]_vars
    /\ [][ wpc = "dirs" /\ Top.dirs # <<>> =>
             /\ Top.files = <<>>
             /\ yields = 0
             /\ Fetches <=> HoldsOneOf(Head(Top.dirs).name, VIM_DIRECTORIES)
             /\ Fetches <=> Len(stack') = Len(stack) + 1
             /\ stack'[Len(stack)].dirs = Tail(Top.dirs) ]_vars
    /\ [][ wpc = "ret" /\ stack # <<>> /\ retval.kind = "tuple" /\ AnyOf(retval) =>
             /\ stack' = Pop
             /\ retval' = retval
             /\ wpc' = "ret"
             /\ ~Fetches ]_vars
    /\ [](\A i \in 1..(Len(stack) - 1) : stack[i].files = <<>>)

\* the root listing's candidate file yielded nothing, its candidate
\* subdirectory was fetched next, and the file found there yielded the
\* reference the walk returned
C18_Witness ==
    /\ wpc = "done"
    /\ fileFetchDepths = {0, 1}
    /\ fetches = 3
    /\ yields = 1
    /\ AnyOf(retval)
    /\ retval = yieldResult

-----------------------------------------------------------------------------
(* Termination of the discoverer *)

\* C19: every run that was started returns or raises; on every full page the
\* cursor of the keyword strictly increases, the keywords are taken one after
\* the other, each once, and a run makes no more search queries than
\* keywords times (repos + 1).
C19_RunTerminates ==
    /\ (dpc \in {"keyword", "search", "items", "throttle", "paginate"})
          ~> (dpc \in {"returned", "aborted"})
    /\ [][ dpc = "paginate" /\ Len(items) >= PerPage =>
             last_pushed_date' > last_pushed_date ]_vars
    /\ [][ runs' = runs => kw' = kw \/ (kw' = kw + 1 /\ dpc = "paginate") ]_vars
    /\ [](kw <= NKeywords + 1)
    /\ [](searchFetches <= NKeywords * (NRepos + 1))

\* a run with a quota it did not reach went through a full page, a second
\* query of the same keyword and every other keyword, and returned
C19_Witness ==
    /\ dpc = "returned"
    /\ kw = NKeywords + 1
    /\ runProcessed = PerPage
    /\ num > runProcessed
    /\ searchFetches = NKeywords + 1
    /\ throttleCalls = searchFetches

-----------------------------------------------------------------------------
(* Starvation in the known-plugin re-scraper *)

\* C20: under repeated runs with num >= 1, every record that is not
\* blacklisted is eventually scraped, whatever the remote answers. The model
\* follows MaxRuns runs; when there are no more records to scrape than runs,
\* runs that each scrape a least recently scraped record get to all of them.
C20_NoStarvation ==
    (/\ Cardinality(Selectable) <= MaxRuns
     /\ [](ppc \in {"loop", "returned", "aborted"} => pnum >= 1))
        => <>(Selectable \subseteq pscraped)

====
